---- MODULE Spec2Model ----
(***************************************************************************)
(* A model of smart_code_export.py: the export engine                      *)
(* (export_project_code), stack detection and discovery (detect_stack,     *)
(* find_projects) and the configuration document handled by the menu loop  *)
(* (load_configs, save_configs, main_flow and the operations it calls).    *)
(*                                                                         *)
(* Strings on which the code computes (file and directory names,           *)
(* extensions) are sequences of one-character strings, so that lower()     *)
(* and endswith() are computed and not assumed.  A relative path is the    *)
(* sequence of its parts.                                                  *)
(***************************************************************************)
EXTENDS Integers, Sequences, FiniteSets, TLC

VARIABLES
    \* ---- the project tree and the arguments of export_project_code
    fattr,            \* per file: size, stat failure, encoding, line count
    rule,             \* [extensions, exclude_dirs] of the chosen stack
    max_depth,        \* None or Some(a natural number)
    selected_paths,   \* None or Some(a list of relative paths)
    destWritable,     \* whether the output path can be opened for writing
    \* ---- the run of export_project_code
    pc,               \* "idle", "walk", "done"
    todo,             \* directories os.walk still has to yield, in order
    curFiles,         \* files of the yielded directory not yet handled
    curRoot,          \* the directory os.walk yielded last
    outFile,          \* None (no such file) or Some(its content, a list of pieces)
    included_files,
    skipped_files,
    visited,          \* the directories os.walk has yielded in this run
    result,           \* None while running, then Some(the value returned)
    runs,             \* number of calls started
    prevOut,          \* the output file as the previous call left it
    \* ---- the configuration and the menu loop
    configs,          \* the configuration in memory: [stacks, scan_dirs]
    cfgFile,          \* CONFIG_FILE on disk: [kind, doc]
    cfgFile0,         \* CONFIG_FILE as it was at start-up
    mpc,              \* "start", "menu", "crashed", "exited"
    lastOp,           \* the operation that ran last
    mutated,          \* configs has been changed since it was loaded
    writesOK,         \* every save_configs so far wrote the file
    fileWritten,      \* save_configs has written the file since start-up
    ops,              \* number of menu operations carried out
    \* ---- a call of detect_stack
    dirContent,       \* the names that exist in the directory asked about
    detected,         \* [done, value]: what detect_stack returned, once it has
    \* ---- a session of export_flow
    fpc,              \* the prompt export_flow is at, "left" once it returned
    stackIdx,         \* index of the stack chosen in the stack menu, 0 if none
    lastChoice,       \* the entry chosen last in the project menu
    tree,             \* the items build_project_tree returned
    selected_items    \* the items ticked in the checkbox prompt

evars == <<fattr, rule, max_depth, selected_paths, destWritable, pc, todo,
           curFiles, curRoot, outFile, included_files, skipped_files,
           visited, result, runs, prevOut>>

cvars == <<configs, cfgFile, cfgFile0, mpc, lastOp, mutated, writesOK, fileWritten, ops>>

dvars == <<dirContent, detected>>

fvars == <<fpc, stackIdx, lastChoice, tree, selected_items>>

vars == <<evars, cvars, dvars, fvars>>

\* Python's None and a value that may be None: <<>> is None, <<x>> is x.
None == <<>>
Some(x) == <<x>>
Val(o) == o[1]

(***************************************************************************)
(* Bounds of the model.                                                    *)
(***************************************************************************)
MaxDepthLimit == 2     \* depth limits 0..MaxDepthLimit, and None
MaxSpecial == 1        \* files of the tree with something wrong with them
ExtraLines == 2        \* the longest file has MAX_LINES_PER_FILE + ExtraLines
MaxRuns == 2           \* calls of export_project_code on the same tree
MaxStacks == 3         \* stacks in the registry
MaxOps == 2            \* menu operations in one session
MaxTicked == 2         \* items ticked in the checkbox prompt
MaxExports == 1        \* exports followed in one session of export_flow

(***************************************************************************)
(* Program constants.                                                      *)
(***************************************************************************)
MAX_LINES_PER_FILE == 1000
MAX_FILE_SIZE == 1000000

(***************************************************************************)
(* str.lower() and str.endswith() on the characters the model uses.        *)
(***************************************************************************)
UpperChars == <<"A", "B", "E", "N", "P", "S", "T", "U", "V", "X", "Y">>
LowerChars == <<"a", "b", "e", "n", "p", "s", "t", "u", "v", "x", "y">>

LowerChar(c) ==
    IF \E i \in 1..Len(UpperChars) : UpperChars[i] = c
    THEN LowerChars[CHOOSE i \in 1..Len(UpperChars) : UpperChars[i] = c]
    ELSE c

lower(s) == [i \in 1..Len(s) |-> LowerChar(s[i])]

endswith(s, suffix) ==
    /\ Len(suffix) <= Len(s)
    /\ SubSeq(s, Len(s) - Len(suffix) + 1, Len(s)) = suffix

InList(x, list) == \E i \in 1..Len(list) : list[i] = x

(***************************************************************************)
(* The project tree.  Names, then what os.scandir lists in each directory, *)
(* in the order it lists them.                                             *)
(***************************************************************************)
n_a_py   == <<"a", ".", "p", "y">>
n_B_PY   == <<"B", ".", "P", "Y">>
n_n_txt  == <<"n", ".", "t", "x", "t">>
n_j_json == <<"j", ".", "j", "s", "o", "n">>
n_c_tsx  == <<"c", ".", "t", "s", "x">>
n_d_py   == <<"d", ".", "p", "y">>
n_e_py   == <<"e", ".", "p", "y">>
n_sub    == <<"s", "u", "b">>
n_deep   == <<"d", "e", "e", "p">>
n_VENV   == <<"V", "E", "N", "V">>

Root == <<>>

Dirs == {Root, <<n_sub>>, <<n_sub, n_deep>>, <<n_VENV>>}

ListDirs(d) ==
    CASE d = Root -> <<n_VENV, n_sub>>
      [] d = <<n_sub>> -> <<n_deep>>
      [] OTHER -> <<>>

ListFiles(d) ==
    CASE d = Root -> <<n_B_PY, n_a_py, n_n_txt, n_j_json>>
      [] d = <<n_sub>> -> <<n_c_tsx>>
      [] d = <<n_sub, n_deep>> -> <<n_d_py>>
      [] d = <<n_VENV>> -> <<n_e_py>>
      [] OTHER -> <<>>

\* relative paths of all files of the tree
Files == UNION {{Append(d, ListFiles(d)[i]) : i \in 1..Len(ListFiles(d))} : d \in Dirs}

FileName(rel) == rel[Len(rel)]
FileDir(rel) == SubSeq(rel, 1, Len(rel) - 1)

(***************************************************************************)
(* mimetypes.guess_type: decided by the suffix of the name alone, tried    *)
(* as written and then in lower case.  A type is <<main, sub>>.            *)
(***************************************************************************)
TypesMap(name) ==
    CASE endswith(name, <<".", "p", "y">>) -> <<"text", "x-python">>
      [] endswith(name, <<".", "t", "x", "t">>) -> <<"text", "plain">>
      [] endswith(name, <<".", "j", "s", "o", "n">>) -> <<"application", "json">>
      [] OTHER -> None

guess_type(name) ==
    IF TypesMap(name) # None THEN TypesMap(name) ELSE TypesMap(lower(name))

startswith_text(mime) == mime[1] = "text"

(***************************************************************************)
(* File contents.  A text is [lines, endsNL]: its lines as splitlines()    *)
(* gives them, and whether a line break follows the last one.  The lines   *)
(* of a file of n lines are numbered 1..n.                                 *)
(***************************************************************************)
FileText(n) == [lines |-> [i \in 1..n |-> i], endsNL |-> n > 0]

\* The tree as it is when nothing is wrong with it: a.py has exactly the
\* line and byte ceilings, d.py is one line longer, B.PY is longer still
\* and is not valid UTF-8, the other files are short.
Baseline(rel) ==
    CASE FileName(rel) = n_a_py ->
           [size |-> MAX_FILE_SIZE, statFails |-> FALSE, enc |-> "utf8",
            nlines |-> MAX_LINES_PER_FILE]
      [] FileName(rel) = n_d_py ->
           [size |-> 9000, statFails |-> FALSE, enc |-> "utf8",
            nlines |-> MAX_LINES_PER_FILE + 1]
      [] FileName(rel) = n_B_PY ->
           [size |-> 9000, statFails |-> FALSE, enc |-> "latin1",
            nlines |-> MAX_LINES_PER_FILE + ExtraLines]
      [] FileName(rel) = n_n_txt ->
           [size |-> 0, statFails |-> FALSE, enc |-> "utf8", nlines |-> 0]
      [] OTHER ->
           [size |-> 120, statFails |-> FALSE, enc |-> "utf8", nlines |-> 2]

\* What may be wrong with a file: it is above the size ceiling, stat()
\* raises on it (a dangling symbolic link), or it cannot be opened.
Oversized(a) == [a EXCEPT !.size = MAX_FILE_SIZE + 1]
StatFails(a) == [a EXCEPT !.statFails = TRUE]
Unreadable(a) == [a EXCEPT !.enc = "unreadable"]

Faults == {"oversized", "statfails", "unreadable"}

WithFault(a, fault) ==
    CASE fault = "oversized" -> Oversized(a)
      [] fault = "statfails" -> StatFails(a)
      [] OTHER -> Unreadable(a)

Rules ==
    { [extensions |-> << <<".", "p", "y">>, <<".", "t", "s", "x">>,
                         <<".", "j", "s", "o", "n">> >>,
       exclude_dirs |-> << <<"v", "e", "n", "v">> >>],
      [extensions |-> << <<".", "P", "y">>, <<".", "t", "x", "t">> >>,
       exclude_dirs |-> << <<"S", "U", "B">> >>] }

Selections ==
    { None, Some(<<>>),
      Some(<< <<n_a_py>>, <<n_sub, n_c_tsx>>, <<n_VENV, n_e_py>>,
              <<n_sub, n_deep, n_d_py>> >>) }

(***************************************************************************)
(* export_project_code                                                     *)
(***************************************************************************)
\* d.lower() not in [ed.lower() for ed in exclude_dirs]
NotExcluded(d, exclude_dirs) ==
    ~ \E i \in 1..Len(exclude_dirs) : lower(exclude_dirs[i]) = lower(d)

RECURSIVE KeepDirs(_, _)
\* dirs[:] = [d for d in dirs if d.lower() not in [...]]
KeepDirs(dirs, exclude_dirs) ==
    IF dirs = <<>> THEN <<>>
    ELSE IF NotExcluded(Head(dirs), exclude_dirs)
         THEN <<Head(dirs)>> \o KeepDirs(Tail(dirs), exclude_dirs)
         ELSE KeepDirs(Tail(dirs), exclude_dirs)

\* any(file.lower().endswith(ext.lower()) for ext in extensions)
ExtensionMatches(file, extensions) ==
    \E i \in 1..Len(extensions) : endswith(lower(file), lower(extensions[i]))

\* selected_paths and str(relative_path) not in selected_paths
NotSelected(rel, selection) ==
    /\ selection # None
    /\ Val(selection) # <<>>
    /\ ~ InList(rel, Val(selection))

\* max_depth is not None and current_depth > max_depth
TooDeep(root, depth_limit) ==
    /\ depth_limit # None
    /\ Len(root) > Val(depth_limit)

\* '\n'.join(lines)
join(lines) == [lines |-> lines, endsNL |-> FALSE]

\* Truncate with the slice one line too long.
TruncateOneMore(content) ==
    IF Len(content.lines) > MAX_LINES_PER_FILE
    THEN join(SubSeq(content.lines, 1, MAX_LINES_PER_FILE + 1))
    ELSE content

\* content = code_file.read(); cut to MAX_LINES_PER_FILE lines when longer
Truncate(content) ==
    IF Len(content.lines) > MAX_LINES_PER_FILE
    THEN join(SubSeq(content.lines, 1, MAX_LINES_PER_FILE))
    ELSE content

\* code_file.read() of the file at rel
ReadText(rel) == FileText(fattr[rel].nlines)

\* Block without the newline that ends it.
BlockNoNewline(rel, content) == <<"\n=== ", rel, " ===\n\n", content>>

\* f"\n=== {relative_path} ===\n\n{content}\n"
Block(rel, content) == <<"\n=== ", rel, " ===\n\n", content, "\n">>

\* The output file opened with "a": what it holds is kept.
OpenForAppend(old) == IF old = None THEN <<>> ELSE Val(old)

\* output_path.open("w"): the file is created empty or truncated
OpenForWrite(old) == <<>>

\* A call of export_project_code: the output file is opened; when that
\* fails the call returns False at once.
Call ==
    /\ pc \in {"idle", "done"}
    /\ UNCHANGED <<cvars, dvars, fvars>>
    /\ runs < MaxRuns
    /\ runs' = runs + 1
    /\ prevOut' = outFile
    /\ included_files' = <<>>
    /\ skipped_files' = <<>>
    /\ visited' = <<>>
    /\ curFiles' = <<>>
    /\ curRoot' = Root
    /\ IF destWritable
       THEN /\ outFile' = Some(OpenForWrite(outFile))
            /\ todo' = <<Root>>
            /\ pc' = "walk"
            /\ result' = None
       ELSE /\ outFile' = outFile
            /\ todo' = <<>>
            /\ pc' = "done"
            /\ result' = Some(FALSE)
    /\ UNCHANGED <<fattr, rule, max_depth, selected_paths, destWritable>>

\* One iteration of "for root, dirs, files in os.walk(project_path)" up to
\* the loop over the files: excluded directories are removed from dirs,
\* the depth is checked, and os.walk goes on into what is left of dirs.
WalkDir ==
    /\ pc = "walk"
    /\ UNCHANGED <<cvars, dvars, fvars>>
    /\ curFiles = <<>>
    /\ todo # <<>>
    /\ LET root == Head(todo)
           dirs == KeepDirs(ListDirs(root), rule.exclude_dirs)
       IN /\ visited' = Append(visited, root)
          /\ curRoot' = root
          /\ curFiles' = IF TooDeep(root, max_depth) THEN <<>> ELSE ListFiles(root)
          /\ todo' = [i \in 1..Len(dirs) |-> Append(root, dirs[i])] \o Tail(todo)
    /\ UNCHANGED <<fattr, rule, max_depth, selected_paths, destWritable, pc,
                   outFile, included_files, skipped_files, result, runs, prevOut>>

\* The file is passed over, written, or recorded as skipped.
Handled(inc, skip, out) ==
    /\ curFiles' = Tail(curFiles)
    /\ included_files' = inc
    /\ skipped_files' = skip
    /\ outFile' = out
    /\ UNCHANGED <<fattr, rule, max_depth, selected_paths, destWritable, pc,
                   todo, curRoot, visited, result, runs, prevOut>>

\* One iteration of "for file in files".
ProcessFile ==
    /\ pc = "walk"
    /\ UNCHANGED <<cvars, dvars, fvars>>
    /\ curFiles # <<>>
    /\ LET file == Head(curFiles)
           rel == Append(curRoot, file)
           a == fattr[rel]
           mime_type == guess_type(file)
           skip == Append(skipped_files, rel)
           written == Some(Val(outFile) \o Block(rel, Truncate(ReadText(rel))))
       IN IF NotSelected(rel, selected_paths)
          THEN Handled(included_files, skipped_files, outFile)
          ELSE IF a.statFails
          THEN \* file_path.stat() raises: caught by the outer except
               /\ pc' = "done"
               /\ result' = Some(FALSE)
               /\ UNCHANGED <<fattr, rule, max_depth, selected_paths, destWritable,
                              todo, curFiles, curRoot, outFile, included_files,
                              skipped_files, visited, runs, prevOut>>
          ELSE IF a.size > MAX_FILE_SIZE
          THEN Handled(included_files, skip, outFile)
          ELSE IF mime_type # None /\ ~ startswith_text(mime_type)
          THEN Handled(included_files, skip, outFile)
          ELSE IF ExtensionMatches(file, rule.extensions)
          THEN CASE a.enc = "utf8" ->
                      Handled(Append(included_files, rel), skipped_files, written)
                 [] a.enc = "latin1" ->
                      \* UnicodeDecodeError, then the read with latin1
                      Handled(Append(included_files, rel), skipped_files, written)
                 [] OTHER ->
                      \* the file cannot be opened
                      Handled(included_files, skip, outFile)
          ELSE Handled(included_files, skip, outFile)

\* os.walk is exhausted: the output file is closed, the call returns True.
Finish ==
    /\ pc = "walk"
    /\ UNCHANGED <<cvars, dvars, fvars>>
    /\ curFiles = <<>>
    /\ todo = <<>>
    /\ pc' = "done"
    /\ result' = Some(TRUE)
    /\ UNCHANGED <<fattr, rule, max_depth, selected_paths, destWritable, todo,
                   curFiles, curRoot, outFile, included_files, skipped_files,
                   visited, runs, prevOut>>

FileAttrs ==
    { [f \in Files |-> IF f \in DOMAIN k THEN WithFault(Baseline(f), k[f])
                                        ELSE Baseline(f)] :
        k \in UNION { [S -> Faults] :
                        S \in {T \in SUBSET Files : Cardinality(T) <= MaxSpecial} } }

\* The export engine before any call, on some tree and with some arguments.
InitExport ==
    /\ fattr \in FileAttrs
    /\ rule \in Rules
    /\ max_depth \in {None} \cup {Some(d) : d \in 0..MaxDepthLimit}
    /\ selected_paths \in Selections
    /\ destWritable \in BOOLEAN
    /\ pc = "idle"
    /\ todo = <<>>
    /\ curFiles = <<>>
    /\ curRoot = Root
    /\ outFile = None
    /\ included_files = <<>>
    /\ skipped_files = <<>>
    /\ visited = <<>>
    /\ result = None
    /\ runs = 0
    /\ prevOut = None

(***************************************************************************)
(* The configuration document.  "stacks" is an ordered mapping: a list of  *)
(* rules, each with its name.  A rule's "signature_files" key may be       *)
(* absent (None): detect_stack reads it with .get("signature_files", []).  *)
(* "projects" maps project names to paths.                                 *)
(***************************************************************************)
NoProjects == [n \in {} |-> n]

Put(m, k, v) == [x \in DOMAIN m \cup {k} |-> IF x = k THEN v ELSE m[x]]
Del(m, k) == [x \in DOMAIN m \ {k} |-> m[x]]

DEFAULT_SCAN_DIRS == <<"~/projects", "~/Dev", "~/work", "~/code">>

DEFAULT_CONFIGS ==
    [stacks |->
       << [name |-> "React + TypeScript (Vite)",
           extensions |-> <<".ts", ".tsx", ".js", ".jsx", ".css", ".scss", ".html", ".json">>,
           exclude_dirs |-> <<"node_modules", "dist", ".git", ".vite">>,
           signature_files |-> Some(<<"vite.config.ts", "package.json">>),
           projects |-> NoProjects],
          [name |-> "Python (Django)",
           extensions |-> <<".py", ".html", ".css", ".js">>,
           exclude_dirs |-> <<"venv", "__pycache__", ".git">>,
           signature_files |-> Some(<<"manage.py", "requirements.txt">>),
           projects |-> NoProjects] >>,
     scan_dirs |-> DEFAULT_SCAN_DIRS]

NoDoc == [stacks |-> <<>>, scan_dirs |-> <<>>]

StackNames(cfg) == {cfg.stacks[i].name : i \in 1..Len(cfg.stacks)}

(***************************************************************************)
(* The disk outside the project tree: what exists, what iterdir() lists,   *)
(* and the names inside each candidate project directory.                  *)
(***************************************************************************)
\* Path(base_dir).expanduser().resolve()
expanduser_resolve(p) ==
    CASE p = "~/projects" -> "/home/u/projects"
      [] p = "~/Dev" -> "/home/u/Dev"
      [] p = "~/work" -> "/home/u/work"
      [] p = "~/code" -> "/home/u/code"
      [] OTHER -> p

\* "dir", "file", "locked" (a directory that may not be listed), "missing"
DiskKind(p) ==
    CASE p = "/home/u/Dev" -> "dir"
      [] p = "/home/u/work" -> "dir"
      [] p = "/home/u/Dev/shop" -> "dir"
      [] p = "/home/u/Dev/blog" -> "dir"
      [] p = "/home/u/work/shop" -> "dir"
      [] p = "/home/u/Dev/README" -> "file"
      [] p = "/srv/list.txt" -> "file"
      [] p = "/locked" -> "locked"
      [] OTHER -> "missing"

\* the names iterdir() yields, in its order
iterdir(p) ==
    CASE p = "/home/u/Dev" -> <<"shop", "README", "blog">>
      [] p = "/home/u/work" -> <<"shop">>
      [] OTHER -> <<>>

\* the names that exist inside a directory
NamesIn(p) ==
    CASE p = "/home/u/Dev/shop" -> {"package.json", "vite.config.ts"}
      [] p = "/home/u/Dev/blog" -> {"manage.py"}
      [] p = "/home/u/work/shop" -> {"manage.py", "package.json", "go.mod"}
      [] OTHER -> {}

(***************************************************************************)
(* detect_stack and find_projects                                          *)
(***************************************************************************)
\* stack_config.get("signature_files", [])
SignatureFiles(stack) ==
    IF stack.signature_files = None THEN <<>> ELSE Val(stack.signature_files)

RECURSIVE AnySignature(_, _)
\* for sig_file in ...: if (project_path / sig_file).exists(): return
AnySignature(sigs, present) ==
    IF sigs = <<>> THEN FALSE
    ELSE IF Head(sigs) \in present THEN TRUE
    ELSE AnySignature(Tail(sigs), present)

RECURSIVE DetectFrom(_, _)
DetectFrom(stacks, present) ==
    IF stacks = <<>> THEN None
    ELSE IF AnySignature(SignatureFiles(Head(stacks)), present)
         THEN Some(Head(stacks).name)
         ELSE DetectFrom(Tail(stacks), present)

RECURSIVE DetectLastFrom(_, _)
DetectLastFrom(stacks, present) ==
    IF stacks = <<>> THEN None
    ELSE IF DetectLastFrom(Tail(stacks), present) # None
         THEN DetectLastFrom(Tail(stacks), present)
         ELSE IF AnySignature(SignatureFiles(Head(stacks)), present)
              THEN Some(Head(stacks).name)
              ELSE None

\* detect_stack that goes on after a match and returns the last one.
detect_stack_last(present, cfg) == DetectLastFrom(cfg.stacks, present)

\* detect_stack(project_path, configs); present: the names in project_path
detect_stack(present, cfg) == DetectFrom(cfg.stacks, present)

\* found_projects.setdefault(stack_name, {})[name] = path
Found(found, stack_name, name, path) ==
    Put(found, stack_name,
        Put(IF stack_name \in DOMAIN found THEN found[stack_name] ELSE NoProjects,
            name, path))

RECURSIVE ScanItems(_, _, _, _)
\* for item in expanded_dir.iterdir(): if item.is_dir(): ...
ScanItems(dir, items, cfg, found) ==
    IF items = <<>> THEN found
    ELSE LET item == dir \o "/" \o Head(items)
             stack_name == detect_stack(NamesIn(item), cfg)
         IN IF DiskKind(item) = "dir" /\ stack_name # None
            THEN ScanItems(dir, Tail(items), cfg,
                           Found(found, Val(stack_name), Head(items), item))
            ELSE ScanItems(dir, Tail(items), cfg, found)

RECURSIVE FindFrom(_, _, _)
\* for base_dir in scan_dirs: a directory that does not exist is passed
\* over; iterdir() raises on a path that is no directory or may not be
\* listed, and nothing in find_projects catches it.
FindFrom(dirs, cfg, found) ==
    IF dirs = <<>> THEN [raised |-> FALSE, found |-> found]
    ELSE LET expanded_dir == expanduser_resolve(Head(dirs))
         IN IF DiskKind(expanded_dir) = "missing"
            THEN FindFrom(Tail(dirs), cfg, found)
            ELSE IF DiskKind(expanded_dir) # "dir"
            THEN [raised |-> TRUE, found |-> found]
            ELSE FindFrom(Tail(dirs), cfg,
                          ScanItems(expanded_dir, iterdir(expanded_dir), cfg, found))

find_projects(cfg) == FindFrom(cfg.scan_dirs, cfg, NoProjects)

(***************************************************************************)
(* Text typed at a prompt: None when the prompt is cancelled, or a list of *)
(* words and blanks (" ").                                                 *)
(***************************************************************************)
RECURSIVE split(_)
\* str.split(): the words, without the blanks
split(text) ==
    IF text = <<>> THEN <<>>
    ELSE IF Head(text) = " " THEN split(Tail(text))
    ELSE <<Head(text)>> \o split(Tail(text))

\* "if text:" is true of a text that is neither None nor empty
Truthy(input) == input # None /\ Val(input) # <<>>

\* x.strip(), for the names of the model: a name of blanks only becomes ""
strip(x) == IF x \in {"", " ", "  "} THEN "" ELSE x

\* validate=lambda x: x.strip() != "" and x not in <the names taken>
ValidName(x, taken) == strip(x) # "" /\ x \notin taken

NamePool == {"Go", "Rust", "  "}
ExtTexts == {None, Some(<<".go", " ", ".mod">>)}
ExclTexts == {None, Some(<<" ">>)}
SigTexts == {None, Some(<<"package.json", " ", "go.mod">>)}
ProjectNamePool == {"shop", "api", " "}
ProjectPathPool == {"/home/u/work/shop"}
ScanDirTexts ==
    { None, Some(<<>>), Some(<<"~/Dev", " ", "/srv/list.txt">>),
      Some(<<"/locked", " ", "~/code">>), Some(<<"~/work">>) }

(***************************************************************************)
(* load_configs and save_configs                                           *)
(***************************************************************************)
FileOf(kind) == [kind |-> kind, doc |-> NoDoc]
Document(cfg) == [kind |-> "doc", doc |-> cfg]

\* What load_configs returns, and whether an exception leaves it: a file
\* that is not UTF-8 makes json.load raise UnicodeDecodeError, which is
\* neither json.JSONDecodeError nor IOError.
load_configs(file) ==
    CASE file.kind = "missing" -> [raised |-> FALSE, value |-> DEFAULT_CONFIGS]
      [] file.kind = "unreadable" -> [raised |-> FALSE, value |-> DEFAULT_CONFIGS]
      [] file.kind = "badjson" -> [raised |-> FALSE, value |-> DEFAULT_CONFIGS]
      [] file.kind = "badutf8" -> [raised |-> TRUE, value |-> NoDoc]
      [] OTHER -> [raised |-> FALSE, value |-> file.doc]

\* save_configs: the document is written in full, or the file cannot be
\* opened and the IOError is logged.
save_configs(cfg) ==
    \/ /\ cfgFile' = Document(cfg)
       /\ fileWritten' = TRUE
       /\ writesOK' = writesOK
    \/ /\ cfgFile' = cfgFile
       /\ fileWritten' = fileWritten
       /\ writesOK' = FALSE

NoSave == UNCHANGED <<cfgFile, fileWritten, writesOK>>

(***************************************************************************)
(* main_flow and the operations of its menus.  An operation runs from one  *)
(* menu prompt to the next.                                                *)
(***************************************************************************)
\* The operation op leaves cfg in memory and the program at a menu prompt.
BackAtMenu(op, cfg) ==
    /\ configs' = cfg
    /\ mutated' = (mutated \/ cfg # configs)
    /\ lastOp' = op
    /\ ops' = ops + 1
    /\ mpc' = "menu"
    /\ UNCHANGED <<cfgFile0, evars, dvars, fvars>>

\* An exception leaves main_flow: the program ends.
Crash(op) ==
    /\ mpc' = "crashed"
    /\ lastOp' = op
    /\ ops' = ops + 1
    /\ UNCHANGED <<configs, mutated, cfgFile, cfgFile0, fileWritten, writesOK,
                   evars, dvars, fvars>>

AtMenu == mpc = "menu" /\ ops < MaxOps

\* configs = load_configs(), first statement of main_flow
Load ==
    /\ mpc = "start"
    /\ LET r == load_configs(cfgFile)
       IN IF r.raised
          THEN Crash("load")
          ELSE /\ configs' = r.value
               /\ mpc' = "menu"
               /\ lastOp' = "load"
               /\ UNCHANGED <<mutated, ops, cfgFile, cfgFile0, fileWritten,
                              writesOK, evars, dvars, fvars>>

NewStack(name, extensions, exclude_dirs, signature_files) ==
    [name |-> name,
     extensions |-> split(extensions),
     exclude_dirs |-> split(exclude_dirs),
     signature_files |-> Some(split(signature_files)),
     projects |-> NoProjects]

\* create_new_stack: the name prompt accepts only a name that is not blank
\* and is no stack's name; a cancelled or empty answer ends the operation.
CreateNewStack ==
    /\ AtMenu
    /\ Len(configs.stacks) < MaxStacks
    /\ \E name \in {None} \cup {Some(n) : n \in {x \in NamePool : ValidName(x, StackNames(configs))}},
          extensions \in ExtTexts, exclude_dirs \in ExclTexts,
          signature_files \in SigTexts :
          IF name = None \/ ~ Truthy(extensions) \/ ~ Truthy(exclude_dirs)
                \/ ~ Truthy(signature_files)
          THEN BackAtMenu("create", configs) /\ NoSave
          ELSE LET cfg == [configs EXCEPT !.stacks =
                             Append(@, NewStack(Val(name), Val(extensions),
                                                Val(exclude_dirs),
                                                Val(signature_files)))]
               IN BackAtMenu("create", cfg) /\ save_configs(cfg)

\* edit_stack_config: each answer that is not empty replaces its list at
\* once; current_config["signature_files"] raises KeyError when the rule
\* has no such key, and the except clause returns without saving.
EditStackConfig ==
    /\ AtMenu
    /\ \E i \in 1..Len(configs.stacks), extensions \in ExtTexts,
          exclude_dirs \in ExclTexts, signature_files \in SigTexts :
          LET c1 == IF Truthy(extensions)
                    THEN [configs EXCEPT !.stacks[i].extensions = split(Val(extensions))]
                    ELSE configs
              c2 == IF Truthy(exclude_dirs)
                    THEN [c1 EXCEPT !.stacks[i].exclude_dirs = split(Val(exclude_dirs))]
                    ELSE c1
              c3 == IF Truthy(signature_files)
                    THEN [c2 EXCEPT !.stacks[i].signature_files =
                                       Some(split(Val(signature_files)))]
                    ELSE c2
          IN IF configs.stacks[i].signature_files = None
             THEN BackAtMenu("edit", c2) /\ NoSave
             ELSE BackAtMenu("edit", c3) /\ save_configs(c3)

\* edit_stack, "add": the name prompt accepts only a name that is not
\* registered in the stack, the path prompt only a directory.
AddProject ==
    /\ AtMenu
    /\ \E i \in 1..Len(configs.stacks) :
       \E project_name \in {None} \cup
              {Some(n) : n \in {x \in ProjectNamePool :
                                    ValidName(x, DOMAIN configs.stacks[i].projects)}},
          project_path \in {None} \cup
              {Some(q) : q \in {x \in ProjectPathPool : DiskKind(x) = "dir"}} :
          IF project_name = None \/ project_path = None
          THEN BackAtMenu("add", configs) /\ NoSave
          ELSE LET cfg == [configs EXCEPT !.stacks[i].projects =
                             Put(@, Val(project_name), Val(project_path))]
               IN BackAtMenu("add", cfg) /\ save_configs(cfg)

\* edit_stack, "remove"
RemoveProject ==
    /\ AtMenu
    /\ \E i \in 1..Len(configs.stacks) :
          /\ DOMAIN configs.stacks[i].projects # {}
          /\ \E project \in {None} \cup {Some(n) : n \in DOMAIN configs.stacks[i].projects} :
                IF project = None
                THEN BackAtMenu("remove", configs) /\ NoSave
                ELSE LET cfg == [configs EXCEPT !.stacks[i].projects = Del(@, Val(project))]
                     IN BackAtMenu("remove", cfg) /\ save_configs(cfg)

\* projects[name] = path for each found project, registered or not
AddOrReplace(projects, found) ==
    [n \in DOMAIN projects \cup DOMAIN found |->
        IF n \in DOMAIN found THEN found[n] ELSE projects[n]]

\* if name not in projects: projects[name] = path, for each found project
AddMissing(projects, found) ==
    [n \in DOMAIN projects \cup DOMAIN found |->
        IF n \in DOMAIN projects THEN projects[n] ELSE found[n]]

\* edit_stack, "scan"
Scan ==
    /\ AtMenu
    /\ \E i \in 1..Len(configs.stacks) :
          LET r == find_projects(configs)
              stack_name == configs.stacks[i].name
          IN IF r.raised
             THEN Crash("scan")
             ELSE IF stack_name \in DOMAIN r.found
             THEN LET cfg == [configs EXCEPT !.stacks[i].projects =
                                AddMissing(@, r.found[stack_name])]
                  IN BackAtMenu("scan", cfg) /\ save_configs(cfg)
             ELSE BackAtMenu("scan", configs) /\ NoSave

\* main_flow, "discover"
Discover ==
    /\ AtMenu
    /\ LET r == find_projects(configs)
       IN IF r.raised
          THEN Crash("discover")
          ELSE IF DOMAIN r.found # {}
          THEN LET cfg == [configs EXCEPT !.stacks =
                             [i \in 1..Len(configs.stacks) |->
                                IF configs.stacks[i].name \in DOMAIN r.found
                                THEN [configs.stacks[i] EXCEPT !.projects =
                                        AddMissing(@, r.found[configs.stacks[i].name])]
                                ELSE configs.stacks[i]]]
               IN BackAtMenu("discover", cfg) /\ save_configs(cfg)
          ELSE BackAtMenu("discover", configs) /\ NoSave

RECURSIVE Existing(_)
\* valid_dirs = [d for d in scan_dirs if Path(d).exists()]
Existing(dirs) ==
    IF dirs = <<>> THEN <<>>
    ELSE IF DiskKind(Head(dirs)) # "missing"
         THEN <<Head(dirs)>> \o Existing(Tail(dirs))
         ELSE Existing(Tail(dirs))

\* configure_scan_dirs
ConfigureScanDirs ==
    /\ AtMenu
    /\ \E new_dirs \in ScanDirTexts :
          IF new_dirs = None
          THEN BackAtMenu("scan_dirs", configs) /\ NoSave
          ELSE LET words == split(Val(new_dirs))
                   scan_dirs == [k \in 1..Len(words) |-> expanduser_resolve(words[k])]
                   valid_dirs == Existing(scan_dirs)
                   cfg == [configs EXCEPT !.scan_dirs =
                             IF valid_dirs # <<>> THEN valid_dirs ELSE DEFAULT_SCAN_DIRS]
               IN BackAtMenu("scan_dirs", cfg) /\ save_configs(cfg)

\* the exit entry of the main menu
Exit ==
    /\ mpc = "menu"
    /\ mpc' = "exited"
    /\ UNCHANGED <<configs, cfgFile, cfgFile0, lastOp, mutated, writesOK,
                   fileWritten, ops, evars, dvars, fvars>>

\* A call of detect_stack on a directory.
DetectStack ==
    /\ ~ detected.done
    /\ detected' = [done |-> TRUE, value |-> detect_stack(dirContent, configs)]
    /\ UNCHANGED <<dirContent, evars, cvars, fvars>>

(***************************************************************************)
(* build_project_tree                                                      *)
(***************************************************************************)
\* The characters of the model in the order of their code points.
CodePoints ==
    <<".", "A", "B", "E", "N", "P", "S", "T", "U", "V", "X", "Y",
      "a", "b", "c", "d", "e", "j", "n", "o", "p", "s", "t", "u", "v", "x", "y">>

ord(c) == CHOOSE i \in 1..Len(CodePoints) : CodePoints[i] = c

RECURSIVE Less(_, _)
\* s < t for two names, as str compares them
Less(s, t) ==
    IF t = <<>> THEN FALSE
    ELSE IF s = <<>> THEN TRUE
    ELSE IF Head(s) = Head(t) THEN Less(Tail(s), Tail(t))
    ELSE ord(Head(s)) < ord(Head(t))

RECURSIVE sorted(_)
\* sorted(names), for a set of distinct names
sorted(names) ==
    IF names = {} THEN <<>>
    ELSE LET first == CHOOSE x \in names : \A y \in names \ {x} : Less(x, y)
         IN <<first>> \o sorted(names \ {first})

\* the names path.iterdir() yields
Entries(path) ==
    {ListDirs(path)[i] : i \in 1..Len(ListDirs(path))}
      \cup {ListFiles(path)[i] : i \in 1..Len(ListFiles(path))}

is_dir(path, name) == InList(name, ListDirs(path))

DirectoryItem(rel) == [type |-> "directory", relative |-> rel]
FileItem(rel) == [type |-> "file", relative |-> rel]
AllItem == [type |-> "all"]

RECURSIVE scan_items(_, _, _, _, _, _)
RECURSIVE scan_directory(_, _, _, _, _)
\* The body of "for item in sorted(path.iterdir())" for the names left in
\* items.  The test on the excluded names comes first and is made on every
\* entry, file or directory; a file is offered when its name ends with an
\* extension and its guessed type is a text type.
scan_items(path, items, depth, extensions, exclude_dirs, depth_limit) ==
    IF items = <<>> THEN <<>>
    ELSE LET item == Head(items)
             relative_path == Append(path, item)
             mime_type == guess_type(item)
             rest == scan_items(path, Tail(items), depth, extensions,
                                exclude_dirs, depth_limit)
         IN IF ~ NotExcluded(item, exclude_dirs)
            THEN rest
            ELSE IF is_dir(path, item)
            THEN IF depth_limit # None /\ depth >= Val(depth_limit)
                 THEN rest
                 ELSE <<DirectoryItem(relative_path)>>
                        \o scan_directory(relative_path, depth + 1, extensions,
                                          exclude_dirs, depth_limit)
                        \o rest
            ELSE IF ExtensionMatches(item, extensions)
            THEN IF mime_type # None /\ startswith_text(mime_type)
                 THEN <<FileItem(relative_path)>> \o rest
                 ELSE rest
            ELSE rest

scan_directory(path, depth, extensions, exclude_dirs, depth_limit) ==
    scan_items(path, sorted(Entries(path)), depth, extensions, exclude_dirs,
               depth_limit)

build_project_tree(extensions, exclude_dirs, depth_limit) ==
    scan_directory(Root, 0, extensions, exclude_dirs, depth_limit)

(***************************************************************************)
(* export_flow.  An action runs from one prompt to the next.               *)
(***************************************************************************)
ManualEntry == "specify path manually"
BackEntry == "back"

RECURSIVE Keys(_)
\* the keys of a dict, as a list
Keys(d) ==
    IF DOMAIN d = {} THEN <<>>
    ELSE LET k == CHOOSE x \in DOMAIN d : TRUE
         IN <<k>> \o Keys(Del(d, k))

\* show_menu: the back entry, whose value is None, is appended to the
\* choices; the value of the entry picked is returned.
show_menu(choices, picked) ==
    Append(choices, [name |-> BackEntry, value |-> None])[picked]

\* choices=[{"name": k, "value": k} for k in configs["stacks"]]
StackChoices ==
    [i \in 1..Len(configs.stacks) |->
        [name |-> configs.stacks[i].name, value |-> Some(i)]]

\* the entries of the registered projects, then the entry for a path typed in
ProjectChoices(projects) ==
    Append([i \in 1..Len(Keys(projects)) |->
                [name |-> Keys(projects)[i], value |-> Some(Keys(projects)[i])]],
           [name |-> ManualEntry, value |-> None])

FlowStack == configs.stacks[stackIdx]

\* The stack menu: back leaves export_flow, a stack without projects is
\* refused, any other stack leads to its project menu.
StackMenu ==
    /\ fpc = "stack_menu"
    /\ runs < MaxExports
    /\ \E picked \in 1..(Len(StackChoices) + 1) :
          LET stack == show_menu(StackChoices, picked).value
          IN IF stack = None
             THEN fpc' = "left" /\ stackIdx' = stackIdx
             ELSE IF DOMAIN configs.stacks[Val(stack)].projects = {}
             THEN fpc' = "stack_menu" /\ stackIdx' = stackIdx
             ELSE fpc' = "project_menu" /\ stackIdx' = Val(stack)
    /\ lastChoice' = "none"
    /\ UNCHANGED <<tree, selected_items, evars, cvars, dvars>>

\* The project menu.  "if project_name is None: continue" comes before the
\* branch for the path typed in, which tests the same condition.
ProjectMenu ==
    /\ fpc = "project_menu"
    /\ LET choices == ProjectChoices(FlowStack.projects)
       IN \E picked \in 1..(Len(choices) + 1) :
             LET entry == show_menu(choices, picked)
                 project_name == entry.value
             IN /\ lastChoice' = entry.name
                /\ IF project_name = None
                   THEN fpc' = "stack_menu" /\ tree' = tree
                   ELSE IF project_name = None
                   THEN fpc' = "manual_path" /\ tree' = tree
                   ELSE /\ fpc' = "checkbox"
                        /\ tree' = <<AllItem>> \o
                              build_project_tree(FlowStack.extensions,
                                                 FlowStack.exclude_dirs, None)
    /\ UNCHANGED <<stackIdx, selected_items, evars, cvars, dvars>>

RECURSIVE os_walk(_)
\* the directories os.walk yields from the directories in todo, top down
os_walk(dirs) ==
    IF dirs = <<>> THEN <<>>
    ELSE LET root == Head(dirs)
             below == [i \in 1..Len(ListDirs(root)) |-> Append(root, ListDirs(root)[i])]
         IN <<root>> \o os_walk(below \o Tail(dirs))

RECURSIVE FilesWithExtension(_, _, _)
\* the files of root whose name ends with one of the extensions
FilesWithExtension(root, files, extensions) ==
    IF files = <<>> THEN <<>>
    ELSE IF ExtensionMatches(Head(files), extensions)
         THEN <<Append(root, Head(files))>>
                \o FilesWithExtension(root, Tail(files), extensions)
         ELSE FilesWithExtension(root, Tail(files), extensions)

RECURSIVE PathsUnder(_, _, _)
\* "for root, _, files in os.walk(dir_path)": a root whose own name is
\* excluded is passed over, the walk still goes on below it.
PathsUnder(roots, extensions, exclude_dirs) ==
    IF roots = <<>> THEN <<>>
    ELSE LET root == Head(roots)
             rest == PathsUnder(Tail(roots), extensions, exclude_dirs)
         IN IF ~ NotExcluded(root[Len(root)], exclude_dirs)
            THEN rest
            ELSE FilesWithExtension(root, ListFiles(root), extensions) \o rest

RECURSIVE SelectedPaths(_, _, _, _)
\* "for item in selected_items", starting from the paths collected so far;
\* the "all" item sets selected_paths to None and ends the loop.
SelectedPaths(items, paths, extensions, exclude_dirs) ==
    IF items = <<>> THEN Some(paths)
    ELSE LET item == Head(items)
         IN CASE item.type = "file" ->
                   SelectedPaths(Tail(items), Append(paths, item.relative),
                                 extensions, exclude_dirs)
              [] item.type = "directory" ->
                   SelectedPaths(Tail(items),
                                 paths \o PathsUnder(os_walk(<<item.relative>>),
                                                     extensions, exclude_dirs),
                                 extensions, exclude_dirs)
              [] OTHER -> None

RECURSIVE TickedFrom(_, _)
\* the items of the tree at the ticked places, in the order of the tree
TickedFrom(i, ticks) ==
    IF i > Len(tree) THEN <<>>
    ELSE (IF i \in ticks THEN <<tree[i]>> ELSE <<>>) \o TickedFrom(i + 1, ticks)

\* The checkbox prompt: a cancelled prompt and an empty selection go back
\* to the stack menu; otherwise selected_paths is computed from the items.
Checkbox ==
    /\ fpc = "checkbox"
    /\ \E ticks \in {None} \cup
            {Some(T) : T \in {U \in SUBSET (1..Len(tree)) : Cardinality(U) <= MaxTicked}} :
          IF ticks = None \/ TickedFrom(1, Val(ticks)) = <<>>
          THEN /\ fpc' = "stack_menu"
               /\ UNCHANGED <<selected_items, selected_paths>>
          ELSE /\ fpc' = "depth"
               /\ selected_items' = TickedFrom(1, Val(ticks))
               /\ selected_paths' = SelectedPaths(TickedFrom(1, Val(ticks)), <<>>,
                                                  FlowStack.extensions,
                                                  FlowStack.exclude_dirs)
    /\ lastChoice' = "none"
    /\ UNCHANGED <<stackIdx, tree, cvars, dvars, fattr, rule, max_depth,
                   destWritable, pc, todo, curFiles, curRoot, outFile,
                   included_files, skipped_files, visited, result, runs, prevOut>>

\* The prompt for the depth limit: empty, or a natural number.
DepthPrompt ==
    /\ fpc = "depth"
    /\ max_depth' \in {None} \cup {Some(d) : d \in 0..MaxDepthLimit}
    /\ fpc' = "output"
    /\ UNCHANGED <<stackIdx, lastChoice, tree, selected_items, cvars, dvars,
                   fattr, rule, selected_paths, destWritable, pc, todo, curFiles,
                   curRoot, outFile, included_files, skipped_files, visited,
                   result, runs, prevOut>>

\* The prompt for the output file; export_project_code is then called with
\* the rule of the stack, selected_paths and max_depth.
OutputPrompt ==
    /\ fpc = "output"
    /\ destWritable' \in BOOLEAN
    /\ rule' = [extensions |-> FlowStack.extensions,
                exclude_dirs |-> FlowStack.exclude_dirs]
    /\ pc' = "idle"
    /\ fpc' = "exporting"
    /\ UNCHANGED <<stackIdx, lastChoice, tree, selected_items, cvars, dvars,
                   fattr, max_depth, selected_paths, todo, curFiles,
                   curRoot, outFile, included_files, skipped_files, visited,
                   result, runs, prevOut>>

\* the call of export_project_code made by export_flow
FlowCall ==
    /\ fpc = "exporting"
    /\ pc = "idle"
    /\ Call

\* "export another project?": yes goes back to the stack menu, no leaves.
Again ==
    /\ fpc = "exporting"
    /\ pc = "done"
    /\ \E answer \in BOOLEAN :
          fpc' = IF answer THEN "stack_menu" ELSE "left"
    /\ pc' = "none"
    /\ UNCHANGED <<stackIdx, lastChoice, tree, selected_items, cvars, dvars,
                   fattr, rule, max_depth, selected_paths, destWritable, todo,
                   curFiles, curRoot, outFile, included_files, skipped_files,
                   visited, result, runs, prevOut>>

(***************************************************************************)
(* Initial states and specifications.                                      *)
(***************************************************************************)
\* A configuration file written by an earlier session.
DocA ==
    [stacks |->
       << [name |-> "Python (Django)",
           extensions |-> <<".py">>,
           exclude_dirs |-> <<"venv">>,
           signature_files |-> Some(<<"manage.py">>),
           projects |-> Put(NoProjects, "shop", "/home/u/old/shop")] >>,
     scan_dirs |-> <<"/home/u/work", "/home/u/Dev">>]

\* A configuration file edited by hand: the rule has no signature files.
DocB ==
    [stacks |->
       << [name |-> "Notes",
           extensions |-> <<".md">>,
           exclude_dirs |-> <<>>,
           signature_files |-> None,
           projects |-> NoProjects] >>,
     scan_dirs |-> <<"~/Dev">>]

StartFiles ==
    { FileOf("missing"), FileOf("unreadable"), FileOf("badjson"), FileOf("badutf8"),
      Document(DocA), Document(DocB) }

InitMenu ==
    /\ cfgFile \in StartFiles
    /\ cfgFile0 = cfgFile
    /\ configs = NoDoc
    /\ mpc = "start"
    /\ lastOp = "none"
    /\ mutated = FALSE
    /\ writesOK = TRUE
    /\ fileWritten = FALSE
    /\ ops = 0

\* no session of the menu loop
MenuIdle ==
    /\ cfgFile = FileOf("missing")
    /\ cfgFile0 = cfgFile
    /\ configs = DEFAULT_CONFIGS
    /\ mpc = "exited"
    /\ lastOp = "none"
    /\ mutated = FALSE
    /\ writesOK = TRUE
    /\ fileWritten = FALSE
    /\ ops = 0

\* no call of export_project_code
ExportIdle ==
    /\ fattr = [f \in Files |-> Baseline(f)]
    /\ rule = [extensions |-> <<>>, exclude_dirs |-> <<>>]
    /\ max_depth = None
    /\ selected_paths = None
    /\ destWritable = TRUE
    /\ pc = "none"
    /\ todo = <<>>
    /\ curFiles = <<>>
    /\ curRoot = Root
    /\ outFile = None
    /\ included_files = <<>>
    /\ skipped_files = <<>>
    /\ visited = <<>>
    /\ result = None
    /\ runs = 0
    /\ prevOut = None

\* no call of detect_stack
DetectIdle ==
    /\ dirContent = {}
    /\ detected = [done |-> TRUE, value |-> None]

\* no session of export_flow
FlowIdle ==
    /\ fpc = "left"
    /\ stackIdx = 0
    /\ lastChoice = "none"
    /\ tree = <<>>
    /\ selected_items = <<>>

\* The registries detect_stack is asked about: up to MaxStacks rules, each
\* with one of these lists of signature files, or with none.
SignatureLists ==
    { None, Some(<<>>), Some(<<"package.json">>), Some(<<"manage.py", "package.json">>),
      Some(<<"vite.config.ts", "package.json">>), Some(<<"go.mod">>) }

RuleNames == <<"React + TypeScript (Vite)", "Python (Django)", "Go", "Rust">>

Registries ==
    UNION { { [stacks |-> [i \in 1..n |->
                  [name |-> RuleNames[i], extensions |-> <<>>, exclude_dirs |-> <<>>,
                   signature_files |-> sigs[i], projects |-> NoProjects]],
               scan_dirs |-> <<>>] : sigs \in [1..n -> SignatureLists] } :
            n \in 0..MaxStacks }

InitDetect ==
    /\ configs \in Registries
    /\ dirContent \in SUBSET {"package.json", "manage.py", "go.mod"}
    /\ detected = [done |-> FALSE, value |-> None]
    /\ cfgFile = FileOf("missing")
    /\ cfgFile0 = cfgFile
    /\ mpc = "exited"
    /\ lastOp = "none"
    /\ mutated = FALSE
    /\ writesOK = TRUE
    /\ fileWritten = FALSE
    /\ ops = 0

\* export_project_code, called MaxRuns times on one tree
Init == InitExport /\ MenuIdle /\ DetectIdle /\ FlowIdle
Next == Call \/ WalkDir \/ ProcessFile \/ Finish
Spec == Init /\ [][Next]_vars

\* a session of main_flow
NextMenu ==
    \/ Load
    \/ CreateNewStack
    \/ EditStackConfig
    \/ AddProject
    \/ RemoveProject
    \/ Scan
    \/ Discover
    \/ ConfigureScanDirs
    \/ Exit
InitSession == InitMenu /\ ExportIdle /\ DetectIdle /\ FlowIdle
SpecMenu == InitSession /\ [][NextMenu]_vars

\* one call of detect_stack
NextDetect == DetectStack
InitCall == InitDetect /\ ExportIdle /\ FlowIdle
SpecDetect == InitCall /\ [][NextDetect]_vars

\* The registry export_flow is entered with: three stacks with a project
\* on the tree of the model, and one stack without projects.
FlowDoc ==
    [stacks |->
       << [name |-> "Python (Django)",
           extensions |-> << <<".", "p", "y">>, <<".", "t", "s", "x">>,
                             <<".", "j", "s", "o", "n">> >>,
           exclude_dirs |-> << <<"v", "e", "n", "v">> >>,
           signature_files |-> Some(<<"manage.py">>),
           projects |-> Put(Put(NoProjects, "shop", "/home/u/work/shop"),
                            "blog", "/home/u/Dev/blog")],
          [name |-> "Notes",
           extensions |-> << <<".", "P", "y">>, <<".", "t", "x", "t">> >>,
           exclude_dirs |-> << <<"S", "U", "B">> >>,
           signature_files |-> Some(<<>>),
           projects |-> Put(NoProjects, "shop", "/home/u/work/shop")],
          [name |-> "Text",
           extensions |-> << <<".", "t", "x", "t">> >>,
           exclude_dirs |-> <<>>,
           signature_files |-> Some(<<>>),
           projects |-> Put(NoProjects, "shop", "/home/u/work/shop")],
          [name |-> "Go",
           extensions |-> << <<".", "g", "o">> >>,
           exclude_dirs |-> <<>>,
           signature_files |-> Some(<<"go.mod">>),
           projects |-> NoProjects] >>,
     scan_dirs |-> <<"/home/u/work", "/home/u/Dev">>]

\* export_flow(configs), entered from the main menu
InitFlow ==
    /\ ExportIdle
    /\ DetectIdle
    /\ configs = FlowDoc
    /\ cfgFile = Document(FlowDoc)
    /\ cfgFile0 = cfgFile
    /\ mpc = "menu"
    /\ lastOp = "export"
    /\ mutated = FALSE
    /\ writesOK = TRUE
    /\ fileWritten = FALSE
    /\ ops = 0
    /\ fpc = "stack_menu"
    /\ stackIdx = 0
    /\ lastChoice = "none"
    /\ tree = <<>>
    /\ selected_items = <<>>

NextFlow ==
    \/ StackMenu
    \/ ProjectMenu
    \/ Checkbox
    \/ DepthPrompt
    \/ OutputPrompt
    \/ FlowCall
    \/ WalkDir
    \/ ProcessFile
    \/ Finish
    \/ Again
SpecFlow == InitFlow /\ [][NextFlow]_vars

(***************************************************************************)
(* Properties of export_project_code.                                      *)
(***************************************************************************)
\* The pieces of the output file (none when there is no file).
OutPieces == IF outFile = None THEN <<>> ELSE Val(outFile)

\* A block is five pieces: the places at which the blocks start.
BlockStarts == {i \in 1..Len(OutPieces) : i % 5 = 1 /\ i + 4 <= Len(OutPieces)}

\* rel has a header in the output file
InOutput(rel) == \E i \in BlockStarts : OutPieces[i + 1] = rel

Finished == pc = "done" /\ result = Some(TRUE)

\* The six conditions of admission, as the specification words them.
AllowedExtension(rel) ==
    \E i \in 1..Len(rule.extensions) :
        endswith(lower(FileName(rel)), lower(rule.extensions[i]))
WithinSizeCeiling(rel) == fattr[rel].size <= MAX_FILE_SIZE
TextClassified(rel) ==
    /\ guess_type(FileName(rel)) # None
    /\ guess_type(FileName(rel))[1] = "text"
Selected(rel) ==
    \/ selected_paths = None
    \/ InList(rel, Val(selected_paths))
UnderExcludedDir(rel) ==
    \E i \in 1..Len(FileDir(rel)) : \E j \in 1..Len(rule.exclude_dirs) :
        lower(rel[i]) = lower(rule.exclude_dirs[j])
WithinDepth(rel) == max_depth = None \/ Len(FileDir(rel)) <= Val(max_depth)

Admitted(rel) ==
    /\ AllowedExtension(rel)
    /\ WithinSizeCeiling(rel)
    /\ TextClassified(rel)
    /\ Selected(rel)
    /\ ~ UnderExcludedDir(rel)
    /\ WithinDepth(rel)

\* C1: when a call has returned success, a file (one that can be read) is
\* in the output if and only if it has an allowed extension, is not above
\* the size ceiling, is of a textual type, is selected (or there is no
\* selection), is under no excluded directory and is within the depth limit.
C1_IncludedIffAdmitted ==
    Finished =>
        \A rel \in Files :
            fattr[rel].enc # "unreadable" => (InOutput(rel) <=> Admitted(rel))

\* C2: a call returns failure only when the destination cannot be opened;
\* no failure that concerns a single file makes it return failure.
C2_FailureOnlyFromDestination ==
    result = Some(FALSE) => ~ destWritable

\* C6: with a depth limit d, os.walk yields no directory whose segment
\* count from the root exceeds d.
C6_DeepDirsNotVisited ==
    max_depth # None =>
        \A i \in 1..Len(visited) : Len(visited[i]) <= Val(max_depth)

\* C3: a second call with the same arguments on the same tree leaves the
\* output file as the first call left it.
C3_RerunSameOutput ==
    (runs >= 2 /\ pc = "done") => outFile = prevOut

C3_Witness ==
    /\ runs = 2
    /\ Finished
    /\ Len(included_files) >= 3
    /\ Len(skipped_files) >= 1
    /\ outFile = prevOut

\* The first k lines of the file at rel.
FirstLines(rel, k) == [j \in 1..k |-> j]

\* The reasons for which the code records a file as skipped.
SkipReason(rel) ==
    \/ fattr[rel].size > MAX_FILE_SIZE
    \/ (guess_type(FileName(rel)) # None /\ guess_type(FileName(rel))[1] # "text")
    \/ ~ AllowedExtension(rel)
    \/ fattr[rel].enc = "unreadable"

\* C4: the content written for a file of more than 1000 lines is its first
\* 1000 lines, in order; for a file of at most 1000 lines it is all its
\* lines; and no file is recorded as skipped for its number of lines.
C4_Truncation ==
    /\ \A i \in BlockStarts :
              LET rel == OutPieces[i + 1]
                  text == OutPieces[i + 3]
                  n == fattr[rel].nlines
              IN IF n > MAX_LINES_PER_FILE
                 THEN text.lines = FirstLines(rel, MAX_LINES_PER_FILE)
                 ELSE text.lines = FirstLines(rel, n)
    /\ \A i \in 1..Len(skipped_files) : SkipReason(skipped_files[i])

C4_Witness ==
    /\ Finished
    /\ InOutput(<<n_B_PY>>) /\ fattr[<<n_B_PY>>].enc = "latin1"
    /\ InOutput(<<n_sub, n_deep, n_d_py>>)
    /\ InOutput(<<n_a_py>>)
    /\ fattr[<<n_sub, n_deep, n_d_py>>].nlines = MAX_LINES_PER_FILE + 1

RECURSIVE WalkOrder(_)
\* The files of the tree in the order in which os.walk reaches them when
\* nothing is pruned: the files of a directory, then its subdirectories.
WalkOrder(pending) ==
    IF pending = <<>> THEN <<>>
    ELSE LET d == Head(pending)
         IN [i \in 1..Len(ListFiles(d)) |-> Append(d, ListFiles(d)[i])]
            \o WalkOrder([i \in 1..Len(ListDirs(d)) |-> Append(d, ListDirs(d)[i])]
                         \o Tail(pending))

WalkPos(rel) == CHOOSE i \in 1..Len(WalkOrder(<<Root>>)) : WalkOrder(<<Root>>)[i] = rel

\* The block the specification gives a file: header, content cut to the
\* line ceiling, one newline.
ExpectedBlock(rel) ==
    LET n == fattr[rel].nlines
    IN <<"\n=== ", rel, " ===\n\n",
         IF n > MAX_LINES_PER_FILE
         THEN [lines |-> FirstLines(rel, MAX_LINES_PER_FILE), endsNL |-> FALSE]
         ELSE [lines |-> FirstLines(rel, n), endsNL |-> n > 0],
         "\n">>

RECURSIVE ExpectedOutput(_)
ExpectedOutput(list) ==
    IF list = <<>> THEN <<>>
    ELSE ExpectedBlock(Head(list)) \o ExpectedOutput(Tail(list))

\* C7: the output file is the concatenation of one block per included
\* file, in traversal order; no file is included twice, and a skipped file
\* has no header in the output.
C7_OutputIsBlocks ==
    outFile # None =>
        /\ Val(outFile) = ExpectedOutput(included_files)
        /\ \A i, j \in 1..Len(included_files) :
              i < j => WalkPos(included_files[i]) < WalkPos(included_files[j])
        /\ \A i \in 1..Len(skipped_files) : ~ InOutput(skipped_files[i])

C7_Witness ==
    /\ Finished
    /\ Len(included_files) >= 3
    /\ \E i \in 1..Len(included_files) :
          fattr[included_files[i]].enc = "latin1"
    /\ \E i \in 1..Len(included_files) :
          fattr[included_files[i]].nlines > MAX_LINES_PER_FILE
    /\ Len(skipped_files) >= 2

(***************************************************************************)
(* Properties of detect_stack.                                             *)
(***************************************************************************)
\* the i-th rule of the registry has a signature file in the directory
HasSignature(i) ==
    LET stack == configs.stacks[i]
    IN /\ stack.signature_files # None
       /\ \E k \in 1..Len(Val(stack.signature_files)) :
             Val(stack.signature_files)[k] \in dirContent

Matching == {i \in 1..Len(configs.stacks) : HasSignature(i)}

\* C5: detect_stack returns the first rule, in the order of the registry,
\* that has a signature file in the directory, and None when no rule has.
C5_FirstDeclaredStack ==
    detected.done =>
        IF Matching = {}
        THEN detected.value = None
        ELSE detected.value =
                Some(configs.stacks[CHOOSE i \in Matching :
                                      \A j \in Matching : i <= j].name)

\* Two rules match, the second through a file both list, and the one
\* returned is the earlier, which is not the first of the registry.
C5_Witness ==
    /\ detected.done
    /\ dirContent = {"package.json"}
    /\ Matching = {2, 3}
    /\ configs.stacks[2].signature_files = Some(<<"manage.py", "package.json">>)
    /\ detected.value = Some(configs.stacks[2].name)

(***************************************************************************)
(* Properties of the configuration document.                               *)
(***************************************************************************)
\* C8: when the configuration file is missing, unreadable or corrupt at
\* start-up, loading it raises nothing and gives the default document, and
\* the file stays as it was for as long as the configuration in memory is
\* unchanged.
C8_LoadFallsBackSilently ==
    (cfgFile0.kind # "doc" /\ mpc # "start") =>
        /\ lastOp = "load" => (mpc # "crashed" /\ configs = DEFAULT_CONFIGS)
        /\ ~ mutated => cfgFile = cfgFile0

\* C9: at a menu prompt, when every write so far succeeded and the
\* configuration in memory has been changed since start-up, the file holds
\* the configuration in memory.
C9_PersistedEqualsMemory ==
    (mpc = "menu" /\ writesOK /\ mutated) => cfgFile = Document(configs)

\* C10: discovery does not end the menu loop, whatever the scan roots are.
C10_DiscoverSurvivesBadRoot ==
    lastOp = "discover" => mpc # "crashed"

(***************************************************************************)
(* Properties of export_flow.                                              *)
(***************************************************************************)
RegisteredProjects == IF stackIdx = 0 THEN {} ELSE DOMAIN FlowStack.projects

\* C11: in the project menu only the back entry returns to the stack menu:
\* a registered project leads to the selection in its tree, the entry for a
\* path typed in leads to the prompt for that path.
C11_OnlyBackReturnsToStacks ==
    /\ lastChoice = ManualEntry => fpc = "manual_path"
    /\ lastChoice \in RegisteredProjects => fpc = "checkbox"
    /\ (lastChoice # "none" /\ fpc = "stack_menu") => lastChoice = BackEntry

\* rel is a ticked file or lies under a ticked directory
Ticked(rel) ==
    \E i \in 1..Len(selected_items) :
        \/ /\ selected_items[i].type = "file"
           /\ selected_items[i].relative = rel
        \/ /\ selected_items[i].type = "directory"
           /\ Len(selected_items[i].relative) < Len(rel)
           /\ SubSeq(rel, 1, Len(selected_items[i].relative))
                 = selected_items[i].relative

AllTicked == \E i \in 1..Len(selected_items) : selected_items[i].type = "all"

FlowExported == fpc = "exporting" /\ Finished

\* C13: when files or directories are ticked and the entry for the entire
\* project is not, every file in the output is ticked or lies under a
\* ticked directory; when the ticked items hold no file with an allowed
\* extension, the output is empty.
C13_OnlyTickedExported ==
    (FlowExported /\ ~ AllTicked) =>
        /\ \A rel \in Files : InOutput(rel) => Ticked(rel)
        /\ selected_paths = Some(<<>>) => OutPieces = <<>>

(***************************************************************************)
(* build_project_tree against export_project_code.                         *)
(***************************************************************************)
\* the files build_project_tree offers for the arguments of the export
OfferedFiles ==
    LET items == build_project_tree(rule.extensions, rule.exclude_dirs, max_depth)
    IN {items[i].relative : i \in {j \in 1..Len(items) : items[j].type = "file"}}

IncludedFiles == {included_files[i] : i \in 1..Len(included_files)}

AllReadableAndSmall ==
    \A f \in Files :
        /\ fattr[f].enc # "unreadable"
        /\ ~ fattr[f].statFails
        /\ fattr[f].size <= MAX_FILE_SIZE

\* C14: for the same extensions, excluded directories and depth limit, the
\* files build_project_tree offers are the files an export of the entire
\* project includes, when every file is readable and within the size
\* ceiling.
C14_TreeOffersWhatExportIncludes ==
    (Finished /\ selected_paths = None /\ AllReadableAndSmall) =>
        OfferedFiles = IncludedFiles

(***************************************************************************)
(* Properties of the registry under the operations that add to it.         *)
(***************************************************************************)
RegistryOps == {"create", "add", "scan", "discover"}

\* The rule of a stack: everything but its projects.
RuleOf(stack) ==
    [name |-> stack.name, extensions |-> stack.extensions,
     exclude_dirs |-> stack.exclude_dirs, signature_files |-> stack.signature_files]

\* Every stack of old is in new with its rule, and with every project it
\* had at the path it had; a stack new has more has a name that is not
\* blank and was no stack's name in old.
Kept(old, new) ==
    /\ Len(new.stacks) >= Len(old.stacks)
    /\ \A i \in 1..Len(old.stacks) :
          /\ RuleOf(new.stacks[i]) = RuleOf(old.stacks[i])
          /\ \A n \in DOMAIN old.stacks[i].projects :
                /\ n \in DOMAIN new.stacks[i].projects
                /\ new.stacks[i].projects[n] = old.stacks[i].projects[n]
    /\ \A i \in (Len(old.stacks) + 1)..Len(new.stacks) :
          /\ strip(new.stacks[i].name) # ""
          /\ new.stacks[i].name \notin StackNames(old)

\* C12: create-stack, add-project, scan and discover leave every stack rule
\* and every registered project path as it was; a stack is created only
\* under a name that is not blank and is not a stack's name.
C12_ExistingEntriesKept ==
    [][lastOp' \in RegistryOps /\ ops' = ops + 1 => Kept(configs, configs')]_vars

\* A scan or a discovery has met a project under a name that was registered
\* with another path, and the registered path is still there.
C12_Witness ==
    /\ mpc = "menu"
    /\ lastOp \in {"scan", "discover"}
    /\ mutated
    /\ LET r == find_projects(configs)
       IN /\ ~ r.raised
          /\ \E i \in 1..Len(configs.stacks) :
                /\ configs.stacks[i].name \in DOMAIN r.found
                /\ \E n \in DOMAIN configs.stacks[i].projects
                            \cap DOMAIN r.found[configs.stacks[i].name] :
                      configs.stacks[i].projects[n]
                          # r.found[configs.stacks[i].name][n]

====
